---- MODULE Spec2Model ----
(***************************************************************************)
(* A model of the runtpl template engine (src/src/engine.rs).              *)
(*                                                                         *)
(* A template is a sequence of tokens.  A token is one of the lexical      *)
(* atoms the three regular expressions of the engine tell apart:           *)
(*   Ch(c)            one character of literal text (c may be a blank or   *)
(*                    a line break),                                       *)
(*   Var(path)        the text {{path}},  path already cut at its dots,    *)
(*   Open(item, src)  the text {{foreach item in src}},                    *)
(*   OpenCall(..)     the text {{foreach item in src(args)}},              *)
(*   Close            the text {{endfor}}.                                 *)
(* Offsets are counted in tokens.  Line anchoring, the leading blanks and  *)
(* the trailing line break of RE_FOREACH / RE_ENDFOR are matched token by  *)
(* token, as the regular expressions match them character by character.   *)
(* Output is a string, built by concatenation.                             *)
(***************************************************************************)
EXTENDS Integers, Sequences, FiniteSets, TLC

VARIABLES
    template,   \* the template handed to render / parse target
    context,    \* the caller's context (a VMap value)
    argText,    \* the argument text handed to parse_function_args
    callArgs,   \* the argument map handed to a registry function
    pc,         \* "start" before the call, "done" after it
    result      \* what the call returned

vars == <<template, context, argText, callArgs, pc, result>>

(***************************************************************************)
(* Generic helpers                                                         *)
(***************************************************************************)
RECURSIVE Concat(_)
\* String concatenation of a sequence of strings.
Concat(ss) == IF ss = <<>> THEN "" ELSE Head(ss) \o Concat(Tail(ss))

RECURSIVE JoinWith(_, _)
JoinWith(ss, sep) ==
    IF ss = <<>> THEN ""
    ELSE IF Len(ss) = 1 THEN ss[1]
    ELSE ss[1] \o sep \o JoinWith(Tail(ss), sep)

RECURSIVE Flatten(_)
\* Concatenation of a sequence of sequences.
Flatten(qs) == IF qs = <<>> THEN <<>> ELSE Head(qs) \o Flatten(Tail(qs))

Range(q) == {q[i] : i \in DOMAIN q}

Min(S) == CHOOSE x \in S : \A y \in S : x <= y

(***************************************************************************)
(* serde_json::Value                                                       *)
(***************************************************************************)
VNull    == [t |-> "null"]
VBool(s) == [t |-> "bool", s |-> s]      \* s is "true" or "false"
VNum(s)  == [t |-> "num", s |-> s]       \* s is the number's text
VStr(s)  == [t |-> "str", s |-> s]       \* s is the string's characters, a sequence
VSeq(q)  == [t |-> "seq", q |-> q]
VMap(m)  == [t |-> "map", m |-> m]       \* m: a function from key strings to values
EmptyMap == <<>>

\* Keys of serde_json's Map (a BTreeMap) in their iteration order.
KeyOrder == <<"", "1", "absolute_path", "content", "k", "n", "name", "path",
              "recursive", "source", "v", "x", "xs", "y", "ys", "zz">>

SortedKeys(m) == SelectSeq(KeyOrder, LAMBDA k : k \in DOMAIN m)

\* A character of a string inside JSON text.
EscapeChar(c) ==
    CASE c = "\"" -> "\\\"" [] c = "\\" -> "\\\\" [] c = "\n" -> "\\n"
      [] c = "\r" -> "\\r" [] c = "\t" -> "\\t" [] OTHER -> c

RECURSIVE Escaped(_)
Escaped(cs) == IF cs = <<>> THEN "" ELSE EscapeChar(Head(cs)) \o Escaped(Tail(cs))

RECURSIVE ToJson(_)
\* Value's Display: compact JSON text.
ToJson(v) ==
    CASE v.t = "null" -> "null"
      [] v.t = "bool" -> v.s
      [] v.t = "num"  -> v.s
      [] v.t = "str"  -> "\"" \o Escaped(v.s) \o "\""
      [] v.t = "seq"  ->
            "[" \o JoinWith([i \in DOMAIN v.q |-> ToJson(v.q[i])], ",") \o "]"
      [] v.t = "map"  ->
            LET ks == SortedKeys(v.m)
            IN "{" \o JoinWith([i \in DOMAIN ks |->
                                  "\"" \o ks[i] \o "\":" \o ToJson(v.m[ks[i]])], ",")
                   \o "}"

value_to_string(v) == IF v.t = "str" THEN Concat(v.s) ELSE ToJson(v)

NotFound  == [found |-> FALSE]
Found(v)  == [found |-> TRUE, val |-> v]

RECURSIVE ResolveFrom(_, _)
\* current.get(key) for each key of the path; get on a non-object is None.
ResolveFrom(current, keys) ==
    IF keys = <<>> THEN Found(current)
    ELSE IF current.t = "map" /\ Head(keys) \in DOMAIN current.m
         THEN ResolveFrom(current.m[Head(keys)], Tail(keys))
         ELSE NotFound

\* path is the sequence path.split('.') yields.
resolve_path(ctx, path) == ResolveFrom(ctx, path)

(***************************************************************************)
(* Tokens                                                                  *)
(***************************************************************************)
Ch(c) == [k |-> "ch", c |-> c]
Var(path) == [k |-> "var", path |-> path]
Open(item, src) == [k |-> "open", item |-> item, src |-> src, call |-> FALSE, args |-> <<>>]
OpenCall(item, src, args) ==
    [k |-> "open", item |-> item, src |-> src, call |-> TRUE, args |-> args]
Close == [k |-> "close"]
NL == Ch("\n")

\* \s of the regex crate
IsWs(tok) == tok.k = "ch" /\ tok.c \in {" ", "\n", "\r", "\t"}

\* The text a token stands for.
TokText(tok) ==
    CASE tok.k = "ch"    -> tok.c
      [] tok.k = "var"   -> "{{" \o JoinWith(tok.path, ".") \o "}}"
      [] tok.k = "close" -> "{{endfor}}"
      [] tok.k = "open"  ->
            "{{foreach " \o tok.item \o " in " \o JoinWith(tok.src, ".")
              \o (IF tok.call THEN "(" \o Concat(tok.args) \o ")" ELSE "") \o "}}"

Slice(h, from, to) == SubSeq(h, from + 1, to)   \* &h[from..to], offsets from 0

(***************************************************************************)
(* RE_FOREACH and RE_ENDFOR                                                *)
(***************************************************************************)
\* (?m)^ at offset p of haystack h: the start of the haystack or just after \n.
LineStart(h, p) == p = 0 \/ h[p] = NL

\* The offset just after the run of blanks that starts at offset p.
WsEnd(h, p) ==
    Min({q \in p..Len(h) : q = Len(h) \/ ~IsWs(h[q + 1])})

\* \s*?\r?\n? after the tag that ends at offset e: an optional \r, then an optional \n.
TrailEnd(h, e) ==
    LET r == IF e < Len(h) /\ h[e + 1] = Ch("\r") THEN e + 1 ELSE e
    IN  IF r < Len(h) /\ h[r + 1] = NL THEN r + 1 ELSE r

\* Whether (^\s*)TAG matches at offset s, TAG being a tag of the kind.
TagAt(h, s, kind) ==
    LineStart(h, s) /\ WsEnd(h, s) < Len(h) /\ h[WsEnd(h, s) + 1].k = kind

NoMatch == [found |-> FALSE]
\* The match that starts at offset s: [start, end) and the index of its tag token.
MatchOf(h, s) ==
    [found |-> TRUE, start |-> s, tag |-> WsEnd(h, s) + 1,
     end |-> TrailEnd(h, WsEnd(h, s) + 1)]

\* The leftmost of the matches that start at the offsets in S.
Leftmost(h, S) == IF S = {} THEN NoMatch ELSE MatchOf(h, Min(S))

\* Regex::find_at(h, from): the leftmost match starting at or after from,
\* anchors seeing the text before from.
FindAt(h, from, kind) == Leftmost(h, {s \in from..Len(h) : TagAt(h, s, kind)})

RECURSIVE FindIterFrom(_, _, _)
RECURSIVE FindIterNext(_, _, _)
\* Regex::find_iter(h): the successive non-overlapping matches.
FindIterFrom(h, from, kind) == FindIterNext(h, FindAt(h, from, kind), kind)
FindIterNext(h, m, kind) ==
    IF ~m.found THEN <<>> ELSE <<m>> \o FindIterFrom(h, m.end, kind)

RE_FOREACH_find(h)        == FindAt(h, 0, "open")
RE_FOREACH_find_iter(h)   == FindIterFrom(h, 0, "open")
RE_ENDFOR_find_iter(h)    == FindIterFrom(h, 0, "close")
RE_ENDFOR_find_at(h, pos) == FindAt(h, pos, "close")

(***************************************************************************)
(* Character sequences: str::trim, str::split, str::contains               *)
(***************************************************************************)
WhiteChars == {" ", "\n", "\r", "\t"}

RECURSIVE TrimStart(_)
TrimStart(cs) ==
    IF cs # <<>> /\ Head(cs) \in WhiteChars THEN TrimStart(Tail(cs)) ELSE cs

RECURSIVE TrimEnd(_)
TrimEnd(cs) ==
    IF cs # <<>> /\ cs[Len(cs)] \in WhiteChars
    THEN TrimEnd(SubSeq(cs, 1, Len(cs) - 1)) ELSE cs

Trim(cs) == TrimEnd(TrimStart(cs))

RECURSIVE SplitOn(_, _)
\* str::split(sep): the pieces between the separators, empty pieces kept.
SplitOn(cs, sep) ==
    LET I == {i \in DOMAIN cs : cs[i] = sep}
    IN  IF I = {} THEN <<cs>>
        ELSE <<SubSeq(cs, 1, Min(I) - 1)>> \o SplitOn(SubSeq(cs, Min(I) + 1, Len(cs)), sep)

\* str::splitn(2, sep)
SplitN2(cs, sep) ==
    LET I == {i \in DOMAIN cs : cs[i] = sep}
    IN  IF I = {} THEN <<cs>>
        ELSE <<SubSeq(cs, 1, Min(I) - 1), SubSeq(cs, Min(I) + 1, Len(cs))>>

\* str::contains(needle)
ContainsSeq(hay, needle) ==
    \E i \in 1..(Len(hay) + 1) :
        /\ i + Len(needle) - 1 <= Len(hay)
        /\ SubSeq(hay, i, i + Len(needle) - 1) = needle

(***************************************************************************)
(* serde_json::from_str, as resolve_arg_value uses it.  Exponents and      *)
(* \u escapes are left out: no argument text of the model holds them.      *)
(***************************************************************************)
Digits == {"0", "1", "2", "3", "4", "5", "6", "7", "8", "9"}

PFail == [ok |-> FALSE]
POk(v, next) == [ok |-> TRUE, val |-> v, next |-> next]

\* The index of the first character at or after i that is not JSON white space.
SkipWs(s, i) == Min({j \in i..(Len(s) + 1) : j = Len(s) + 1 \/ s[j] \notin WhiteChars})

Unescape(e) ==
    CASE e = "n" -> "\n" [] e = "r" -> "\r" [] e = "t" -> "\t"
      [] e = "b" -> "<0x08>" [] e = "f" -> "\f" [] OTHER -> e

RECURSIVE ParseStringBody(_, _, _)
\* i is the index after the opening quote; acc the characters read so far.
ParseStringBody(s, i, acc) ==
    IF i > Len(s) THEN PFail
    ELSE IF s[i] = "\"" THEN POk(acc, i + 1)
    ELSE IF s[i] = "\\" THEN
        IF i + 1 <= Len(s) /\ s[i + 1] \in {"\"", "\\", "/", "b", "f", "n", "r", "t"}
        THEN ParseStringBody(s, i + 2, Append(acc, Unescape(s[i + 1])))
        ELSE PFail
    ELSE IF s[i] \in {"\n", "\r", "\t"} THEN PFail     \* a raw control character
    ELSE ParseStringBody(s, i + 1, Append(acc, s[i]))

\* A string, i at its opening quote.
ParseString(s, i) ==
    LET r == ParseStringBody(s, i + 1, <<>>)
    IN  IF r.ok THEN POk(VStr(r.val), r.next) ELSE PFail

\* The index after the run of digits that starts at i.
DigitsEnd(s, i) == Min({j \in i..(Len(s) + 1) : j = Len(s) + 1 \/ s[j] \notin Digits})

\* A number, i at its first character: the integer digits run from j0 to
\* before j1, the whole number to before j2.
ParseNumber(s, i) ==
    LET j0 == IF s[i] = "-" THEN i + 1 ELSE i
        j1 == DigitsEnd(s, j0)
        j2 == IF j1 <= Len(s) /\ s[j1] = "." THEN DigitsEnd(s, j1 + 1) ELSE j1
    IN  IF j0 > Len(s) THEN PFail
        ELSE IF j1 = j0 \/ (s[j0] = "0" /\ j1 # j0 + 1) THEN PFail   \* no digit, leading zero
        ELSE IF j2 = j1 + 1 THEN PFail                              \* '.' and no digit
        ELSE POk(VNum(Concat(SubSeq(s, i, j2 - 1))), j2)

ParseWord(s, i, w, v) ==
    IF i + Len(w) - 1 <= Len(s) /\ SubSeq(s, i, i + Len(w) - 1) = w
    THEN POk(v, i + Len(w)) ELSE PFail

RECURSIVE ParseValue(_, _)
RECURSIVE ParseValueAt(_, _)
RECURSIVE ParseElems(_, _, _)
RECURSIVE ElemsNext(_, _, _)
RECURSIVE ElemsSep(_, _, _)
RECURSIVE ParseMembers(_, _, _)
RECURSIVE MemberColon(_, _, _)
RECURSIVE MemberValue(_, _, _, _)
RECURSIVE MembersSep(_, _, _)

\* The elements of an array after '[' or ','; i is at the next element.
ParseElems(s, i, acc) == ElemsNext(s, acc, ParseValue(s, i))
ElemsNext(s, acc, r) ==
    IF ~r.ok THEN PFail ELSE ElemsSep(s, Append(acc, r.val), SkipWs(s, r.next))
ElemsSep(s, acc, j) ==
    IF j > Len(s) THEN PFail
    ELSE IF s[j] = "]" THEN POk(VSeq(acc), j + 1)
    ELSE IF s[j] = "," THEN ParseElems(s, j + 1, acc)
    ELSE PFail

\* The members of an object after '{' or ','; a is at the next key.
ParseMembers(s, a, acc) ==
    IF a <= Len(s) /\ s[a] = "\"" THEN MemberColon(s, acc, ParseStringBody(s, a + 1, <<>>))
    ELSE PFail
MemberColon(s, acc, key) ==
    IF ~key.ok THEN PFail
    ELSE IF SkipWs(s, key.next) <= Len(s) /\ s[SkipWs(s, key.next)] = ":"
    THEN MemberValue(s, acc, Concat(key.val), ParseValue(s, SkipWs(s, key.next) + 1))
    ELSE PFail
MemberValue(s, acc, k, r) ==
    IF ~r.ok THEN PFail ELSE MembersSep(s, (k :> r.val) @@ acc, SkipWs(s, r.next))
MembersSep(s, acc, j) ==
    IF j > Len(s) THEN PFail
    ELSE IF s[j] = "}" THEN POk(VMap(acc), j + 1)
    ELSE IF s[j] = "," THEN ParseMembers(s, SkipWs(s, j + 1), acc)
    ELSE PFail

\* A value, white space before it skipped.
ParseValue(s, i0) == ParseValueAt(s, SkipWs(s, i0))
ParseValueAt(s, i) ==
    IF i > Len(s) THEN PFail
    ELSE IF s[i] = "\"" THEN ParseString(s, i)
    ELSE IF s[i] = "[" THEN
        IF SkipWs(s, i + 1) <= Len(s) /\ s[SkipWs(s, i + 1)] = "]"
        THEN POk(VSeq(<<>>), SkipWs(s, i + 1) + 1)
        ELSE ParseElems(s, i + 1, <<>>)
    ELSE IF s[i] = "{" THEN
        IF SkipWs(s, i + 1) <= Len(s) /\ s[SkipWs(s, i + 1)] = "}"
        THEN POk(VMap(EmptyMap), SkipWs(s, i + 1) + 1)
        ELSE ParseMembers(s, SkipWs(s, i + 1), EmptyMap)
    ELSE IF s[i] = "t" THEN ParseWord(s, i, <<"t", "r", "u", "e">>, VBool("true"))
    ELSE IF s[i] = "f" THEN ParseWord(s, i, <<"f", "a", "l", "s", "e">>, VBool("false"))
    ELSE IF s[i] = "n" THEN ParseWord(s, i, <<"n", "u", "l", "l">>, VNull)
    ELSE IF s[i] = "-" \/ s[i] \in Digits THEN ParseNumber(s, i)
    ELSE PFail

\* serde_json::from_str: one value, then nothing but white space.
WholeText(s, r) == IF r.ok /\ SkipWs(s, r.next) > Len(s) THEN r ELSE PFail
from_str(s) == WholeText(s, ParseValue(s, 1))

(***************************************************************************)
(* resolve_arg_value and parse_function_args                               *)
(***************************************************************************)
ROk(v)    == [ok |-> TRUE, val |-> v]
RErr(msg) == [ok |-> FALSE, err |-> msg]    \* msg: the message, in pieces

RECURSIVE ConcatEach(_)
ConcatEach(ps) == IF ps = <<>> THEN <<>> ELSE <<Concat(Head(ps))>> \o ConcatEach(Tail(ps))

\* The path of a value text: its pieces between the dots, as key strings.
PathOf(cs) == ConcatEach(SplitOn(cs, "."))

\* The context variable, once the text is known to be no literal.
ArgAsVariable(trimmed, var) ==
    IF var.found THEN ROk(var.val)
    ELSE RErr(<<"Argument value '", Concat(trimmed),
                "' is not a valid JSON literal nor a known variable.">>)

\* The literal if the text is one, else the context variable.
ArgAsLiteral(trimmed, ctx, lit) ==
    IF lit.ok THEN ROk(lit.val)
    ELSE ArgAsVariable(trimmed, resolve_path(ctx, PathOf(trimmed)))

ResolveTrimmed(trimmed, ctx) == ArgAsLiteral(trimmed, ctx, from_str(trimmed))

resolve_arg_value(val_str, ctx) == ResolveTrimmed(Trim(val_str), ctx)

\* One step of the splitting loop over the characters of the argument text.
SplitStep(st, c) ==
    IF c = "\"" THEN
        [st EXCEPT !.in_quotes = ~st.in_quotes, !.current = Append(st.current, c)]
    ELSE IF c \in {"[", "{"} /\ ~st.in_quotes THEN
        [st EXCEPT !.bracket_level = st.bracket_level + 1, !.current = Append(st.current, c)]
    ELSE IF c \in {"]", "}"} /\ ~st.in_quotes THEN
        [st EXCEPT !.bracket_level = st.bracket_level - 1, !.current = Append(st.current, c)]
    ELSE IF c = "," /\ ~st.in_quotes /\ st.bracket_level = 0 THEN
        [st EXCEPT !.parts = Append(st.parts, Trim(st.current)), !.current = <<>>]
    ELSE [st EXCEPT !.current = Append(st.current, c)]

RECURSIVE SplitLoop(_, _)
SplitLoop(st, cs) == IF cs = <<>> THEN st ELSE SplitLoop(SplitStep(st, Head(cs)), Tail(cs))

\* The parts parse_function_args cuts the argument text into: what is left
\* in current after the loop is a part unless it is blank.
SplitArgs(args_str) ==
    LET st == SplitLoop([parts |-> <<>>, current |-> <<>>,
                         bracket_level |-> 0, in_quotes |-> FALSE], args_str)
    IN  IF Trim(st.current) # <<>> THEN Append(st.parts, Trim(st.current)) ELSE st.parts

\* One part "key: value" against the context.
PartValue(key, value) ==
    IF value.ok THEN [ok |-> TRUE, key |-> key, val |-> value.val] ELSE value
PartKeyValue(kv, key, ctx) ==
    IF Len(kv) < 2 THEN RErr(<<"Argument '", key, "' is missing a value">>)
    ELSE PartValue(key, resolve_arg_value(Trim(kv[2]), ctx))
PartSplit(kv, ctx) == PartKeyValue(kv, Concat(Trim(kv[1])), ctx)
ParsePart(part, ctx) == PartSplit(SplitN2(part, ":"), ctx)

RECURSIVE ParseParts(_, _, _)
RECURSIVE PartsNext(_, _, _, _)
ParseParts(parts, ctx, args_map) ==
    IF parts = <<>> THEN ROk(args_map)
    ELSE PartsNext(Tail(parts), ctx, args_map, ParsePart(Head(parts), ctx))
PartsNext(rest, ctx, args_map, p) ==
    IF ~p.ok THEN p ELSE ParseParts(rest, ctx, (p.key :> p.val) @@ args_map)

parse_function_args(args_str, ctx) ==
    IF Trim(args_str) = <<>> THEN ROk(EmptyMap)
    ELSE ParseParts(SplitArgs(args_str), ctx, EmptyMap)

(***************************************************************************)
(* builtin_fns::files and the file tree it walks                           *)
(***************************************************************************)
\* The file tree under the working directory, in WalkDir's order.  A path is
\* its components; walk_err marks an entry WalkDir reports as an error.
FsNodes == <<
    [path |-> << <<"d">> >>,                   dir |-> TRUE,  walk_err |-> FALSE],
    [path |-> << <<"d">>, <<"f">> >>,          dir |-> FALSE, walk_err |-> FALSE,
        canon |-> TRUE,  readable |-> TRUE,  content |-> <<"c">>],
    [path |-> << <<"d">>, <<"g">> >>,          dir |-> FALSE, walk_err |-> FALSE,
        canon |-> TRUE,  readable |-> FALSE, content |-> <<>>],
    [path |-> << <<"d">>, <<"s">> >>,          dir |-> TRUE,  walk_err |-> FALSE],
    [path |-> << <<"d">>, <<"s">>, <<"h">> >>, dir |-> FALSE, walk_err |-> FALSE,
        canon |-> TRUE,  readable |-> TRUE,  content |-> <<"e">>],
    [path |-> << <<"d">>, <<"u">> >>,          dir |-> TRUE,  walk_err |-> TRUE] >>

RECURSIVE JoinChars(_, _)
JoinChars(qs, sep) ==
    IF qs = <<>> THEN <<>>
    ELSE IF Len(qs) = 1 THEN qs[1]
    ELSE qs[1] \o <<sep>> \o JoinChars(Tail(qs), sep)

IsPrefix(p, q) == Len(p) <= Len(q) /\ SubSeq(q, 1, Len(p)) = p

\* WalkDir::new(path), with max_depth(1) unless recursive: the entries it
\* yields, one error for a root that has no entry.
WalkDir(path, recursive) ==
    LET root  == SplitOn(path, "/")
        under == SelectSeq(FsNodes, LAMBDA n :
                     /\ IsPrefix(root, n.path)
                     /\ (recursive \/ Len(n.path) <= Len(root) + 1))
    IN  IF under = <<>> THEN <<[walk_err |-> TRUE]>> ELSE under

RECURSIVE StrItems(_)
\* filter_map(|v| v.as_str()) over an array argument.
StrItems(arr) ==
    IF arr = <<>> THEN <<>>
    ELSE (IF Head(arr).t = "str" THEN <<Head(arr).s>> ELSE <<>>) \o StrItems(Tail(arr))

\* The record files pushes for one file.
FileRecord(e) ==
    VMap(("name" :> VStr(e.path[Len(e.path)]))
      @@ ("path" :> VStr(JoinChars(e.path, "/")))
      @@ ("absolute_path" :> VStr(<<"/", "w", "/">> \o JoinChars(e.path, "/")))
      @@ ("content" :> VStr(e.content)))

\* Whether the loop body reaches the push for entry e.
FileKept(e, exclude_names, exclude_paths) ==
    /\ ~e.walk_err
    /\ ~e.dir
    /\ \A i \in DOMAIN exclude_names : exclude_names[i] # e.path[Len(e.path)]
    /\ \A i \in DOMAIN exclude_paths : ~ContainsSeq(JoinChars(e.path, "/"), exclude_paths[i])
    /\ e.canon
    /\ e.readable

RECURSIVE FileRecords(_, _, _)
\* The records pushed for the entries of one walk.
FileRecords(entries, exclude_names, exclude_paths) ==
    IF entries = <<>> THEN <<>>
    ELSE (IF FileKept(Head(entries), exclude_names, exclude_paths)
          THEN <<FileRecord(Head(entries))>> ELSE <<>>)
         \o FileRecords(Tail(entries), exclude_names, exclude_paths)

RECURSIVE WalkAll(_, _, _, _)
\* The outer loop over source_paths.
WalkAll(source_paths, recursive, exclude_names, exclude_paths) ==
    IF source_paths = <<>> THEN <<>>
    ELSE FileRecords(WalkDir(Head(source_paths), recursive), exclude_names, exclude_paths)
         \o WalkAll(Tail(source_paths), recursive, exclude_names, exclude_paths)

FOk(v)  == [ok |-> TRUE, val |-> v]
FErr(m) == [ok |-> FALSE, err |-> VStr(<<m>>)]     \* func_err!

HasArg(args, k) == k \in DOMAIN args

RECURSIVE TrimEach(_)
\* split(',') of the source string: trimmed, empty pieces dropped.
TrimEach(ps) ==
    IF ps = <<>> THEN <<>>
    ELSE (IF Trim(Head(ps)) # <<>> THEN <<Trim(Head(ps))>> ELSE <<>>) \o TrimEach(Tail(ps))

SourcePaths(src) == IF src.t = "seq" THEN StrItems(src.q) ELSE TrimEach(SplitOn(src.s, ","))

\* An optional array-of-strings argument.
ArrayArg(args, k) == IF HasArg(args, k) THEN StrItems(args[k].q) ELSE <<>>

files(args) ==
    IF ~(HasArg(args, "source") /\ args["source"].t \in {"seq", "str"})
    THEN FErr("'files' function requires a 'source' argument. It must be a comma-separated string (e.g., \"./src\") or an array of strings (e.g., [\"./src\", \"./tests\"])")
    ELSE IF HasArg(args, "recursive") /\ args["recursive"].t # "bool"
    THEN FErr("'recursive' argument must be a boolean (true or false)")
    ELSE IF HasArg(args, "exclude_names") /\ args["exclude_names"].t # "seq"
    THEN FErr("'exclude_names' argument must be an array of strings")
    ELSE IF HasArg(args, "exclude_paths") /\ args["exclude_paths"].t # "seq"
    THEN FErr("'exclude_paths' argument must be an array of strings")
    ELSE FOk(VSeq(WalkAll(SourcePaths(args["source"]),
                          HasArg(args, "recursive") => args["recursive"].s = "true",
                          ArrayArg(args, "exclude_names"),
                          ArrayArg(args, "exclude_paths"))))

\* The function registry.
BUILTIN_FNS == {"files"}

CallBuiltin(name, args) == files(args)      \* the one entry of the registry

(***************************************************************************)
(* render_variables                                                        *)
(***************************************************************************)
\* The path RE_VAR captures in a token, if it matches the token at all:
\* {{endfor}} is a variable reference to RE_VAR, a loop-open tag is not.
VarPath(tok) ==
    CASE tok.k = "var"   -> Found(tok.path)
      [] tok.k = "close" -> Found(<<"endfor">>)
      [] OTHER           -> NotFound

\* A variant of the replacement below in which every token counts as a match
\* of RE_VAR, literal characters too.
SubstituteLoose(tok, ctx) ==
    IF tok.k = "var" /\ resolve_path(ctx, tok.path).found
    THEN value_to_string(resolve_path(ctx, tok.path).val)
    ELSE ""

\* What replace_all leaves in the place of one token: for a match of RE_VAR,
\* the text of the value at its path, unwrap_or_default.
Substitute(tok, ctx) ==
    IF ~VarPath(tok).found THEN TokText(tok)
    ELSE IF resolve_path(ctx, VarPath(tok).val).found
    THEN value_to_string(resolve_path(ctx, VarPath(tok).val).val)
    ELSE ""

RECURSIVE render_variables(_, _)
render_variables(tpl, ctx) ==
    IF tpl = <<>> THEN "" ELSE Substitute(Head(tpl), ctx) \o render_variables(Tail(tpl), ctx)

(***************************************************************************)
(* render_recursive                                                        *)
(***************************************************************************)
\* What a call returns: Ok(String), Err(String) or a panic.  Beside it, log is
\* the history of the call, the events in the order the code reaches them:
\*   "loop"    a loop cut out of the template: the indexes of its two tags, its body
\*   "path"    a loop source looked up as a context path
\*   "lookup"  a loop source looked up in the function registry
\*   "call"    a registry function called with its arguments
\*   "iter"    one iteration of a loop over src, with the value bound to the item name
Ok(out, log)    == [st |-> "ok", out |-> out, log |-> log]
Err(msg, log)   == [st |-> "err", err |-> msg, log |-> log]
Panic(log)      == [st |-> "panic", log |-> log]
\* The same outcome with the events of what ran before it put in front.
After(log, r)   == [r EXCEPT !.log = log \o r.log]

RECURSIVE ScanTags(_, _, _)
RECURSIVE ScanTag(_, _, _, _)
\* The loop over the tags sorted by offset: starts and ends are the sets of the
\* offsets of the loop-open and loop-close matches still to visit.
ScanTags(starts, ends, nesting_level) ==
    IF starts \cup ends = {} THEN -1
    ELSE ScanTag(starts, ends, nesting_level, Min(starts \cup ends))
ScanTag(starts, ends, nesting_level, offset) ==
    IF offset \in starts
    THEN ScanTags(starts \ {offset}, ends \ {offset}, nesting_level + 1)
    ELSE IF nesting_level = 0 THEN offset
    ELSE ScanTags(starts, ends \ {offset}, nesting_level - 1)

Starts(ms) == {ms[i].start : i \in DOMAIN ms}

\* Some(search_start_pos + offset), -1 for None.
EndPos(search_start_pos, offset) == IF offset = -1 THEN -1 ELSE search_start_pos + offset

\* The scan over the slice that follows the open tag.
ScanSlice(rest) ==
    ScanTags(Starts(RE_FOREACH_find_iter(rest)), Starts(RE_ENDFOR_find_iter(rest)), 0)

\* end_match_pos: the offset in tpl where the scan puts the loop's close tag.
EndMatchPos(tpl, search_start_pos) ==
    EndPos(search_start_pos, ScanSlice(Slice(tpl, search_start_pos, Len(tpl))))

\* A variant of items_to_iterate that wraps every value, a sequence too.
ItemsAlwaysWrapped(collection_val) == <<collection_val>>

\* items_to_iterate
ItemsToIterate(collection_val) ==
    IF collection_val.t = "seq" THEN collection_val.q ELSE <<collection_val>>

\* A variant of the default below: a missing source is null, not an empty array.
OrNullValue(r) == IF r.found THEN r.val ELSE VNull

\* unwrap_or(Value::Array(vec![]))
OrEmptyArray(r) == IF r.found THEN r.val ELSE VSeq(<<>>)

\* The collection of a loop over a plain context path.
PathCollection(ctx, src) == OrEmptyArray(resolve_path(ctx, src))

\* new_context_val: the context with item_name bound to the item.
NewContext(ctx, item_name, item) == VMap((item_name :> item) @@ ctx.m)

\* A variant of the context below: the last item's binding is left in place.
AfterContextLeaky(ctx, item_name, items) ==
    IF items = <<>> THEN ctx ELSE NewContext(ctx, item_name, items[Len(items)])

\* The context the text after the loop is rendered with.
AfterContext(ctx, item_name, items) == ctx

Lookup(fn) == [e |-> "lookup", fn |-> fn]
Iter(tag, item) == [e |-> "iter", item |-> tag.item, src |-> tag.src, val |-> item]

\* The outcome of the registry function, with the event of its call.
CallResult(source_name, args_map, r) ==
    IF r.ok THEN [ok |-> TRUE, val |-> r.val,
                  log |-> <<Lookup(source_name),
                            [e |-> "call", fn |-> source_name, args |-> args_map]>>]
    ELSE [ok |-> FALSE,
          err |-> <<"Error in function '", source_name, "': ", value_to_string(r.err)>>,
          log |-> <<Lookup(source_name),
                    [e |-> "call", fn |-> source_name, args |-> args_map]>>]

\* The call, once the argument text is parsed.
CallWithArgs(source_name, a) ==
    IF ~a.ok THEN [ok |-> FALSE, err |-> a.err, log |-> <<Lookup(source_name)>>]
    ELSE CallResult(source_name, a.val, CallBuiltin(source_name, a.val))

\* A variant of the lookup below: an unregistered name yields no items.
CallCollectionLenient(ctx, source_name, args_str) ==
    IF source_name \notin BUILTIN_FNS
    THEN [ok |-> TRUE, val |-> VSeq(<<>>), log |-> <<Lookup(source_name)>>]
    ELSE CallWithArgs(source_name, parse_function_args(args_str, ctx))

\* The collection of a loop over a function call: the value, or the error, and
\* the events of resolving it.
CallCollection(ctx, source_name, args_str) ==
    IF source_name \notin BUILTIN_FNS
    THEN [ok |-> FALSE, err |-> <<"Unknown function '", source_name, "'">>,
          log |-> <<Lookup(source_name)>>]
    ELSE CallWithArgs(source_name, parse_function_args(args_str, ctx))

\* collection_val, or the error of resolving it.
Collection(ctx, tag) ==
    IF tag.call THEN CallCollection(ctx, JoinWith(tag.src, "."), tag.args)
    ELSE [ok |-> TRUE, val |-> PathCollection(ctx, tag.src),
          log |-> <<[e |-> "path", src |-> tag.src]>>]

RECURSIVE render_recursive(_, _)
RECURSIVE RenderFound(_, _, _)
RECURSIVE RenderMatched(_, _, _, _)
RECURSIVE RenderSplit(_, _, _, _)
RECURSIVE RenderLoop(_, _, _, _, _)
RECURSIVE LoopCollection(_, _, _, _, _)
RECURSIVE LoopItems(_, _, _, _, _, _)
RECURSIVE LoopBody(_, _, _, _, _, _, _)
RECURSIVE LoopAfter(_, _, _, _, _, _, _)
RECURSIVE LoopEnd(_, _, _, _)
RECURSIVE RenderItems(_, _, _, _, _)
RECURSIVE ItemRendered(_, _, _, _, _, _)

\* A variant of the for loop below that takes the items last to first.
RenderItemsReversed(body, ctx, tag, items, acc) ==
    IF items = <<>> THEN acc
    ELSE ItemRendered(body, ctx, tag,
                      <<items[Len(items)]>> \o SubSeq(items, 1, Len(items) - 1), acc,
                      render_recursive(body, NewContext(ctx, tag.item, items[Len(items)])))

\* The for loop over items_to_iterate; acc is rendered_loop_body so far.
RenderItems(body, ctx, tag, items, acc) ==
    IF items = <<>> THEN acc
    ELSE ItemRendered(body, ctx, tag, items, acc,
                      render_recursive(body, NewContext(ctx, tag.item, Head(items))))
ItemRendered(body, ctx, tag, items, acc, r) ==
    IF r.st # "ok" THEN After(acc.log \o <<Iter(tag, Head(items))>>, r)
    ELSE RenderItems(body, ctx, tag, Tail(items),
                     Ok(acc.out \o r.out, acc.log \o <<Iter(tag, Head(items))>> \o r.log))

\* The loop found and split at its tags: before_loop first.
RenderLoop(ctx, tag, before_loop, loop_body_template, after_loop) ==
    LoopCollection(ctx, tag, loop_body_template, after_loop,
                   render_recursive(before_loop, ctx))
\* then collection_val,
LoopCollection(ctx, tag, body, after_loop, rendered_before) ==
    IF rendered_before.st # "ok" THEN rendered_before
    ELSE LoopItems(ctx, tag, body, after_loop, rendered_before, Collection(ctx, tag))
LoopItems(ctx, tag, body, after_loop, rendered_before, coll) ==
    IF ~coll.ok THEN Err(coll.err, rendered_before.log \o coll.log)
    ELSE LoopBody(ctx, tag, body, after_loop, rendered_before, coll.log,
                  ItemsToIterate(coll.val))
\* then the body once per item,
LoopBody(ctx, tag, body, after_loop, rendered_before, clog, items) ==
    LoopAfter(ctx, tag, after_loop, rendered_before, clog, items,
              RenderItems(body, ctx, tag, items, Ok("", <<>>)))
\* then after_loop,
LoopAfter(ctx, tag, after_loop, rendered_before, clog, items, rendered_loop_body) ==
    IF rendered_loop_body.st # "ok"
    THEN After(rendered_before.log \o clog, rendered_loop_body)
    ELSE LoopEnd(rendered_before, clog, rendered_loop_body,
                 render_recursive(after_loop, AfterContext(ctx, tag.item, items)))
\* and the three outputs joined.
LoopEnd(rendered_before, clog, rendered_loop_body, rendered_after) ==
    IF rendered_after.st # "ok"
    THEN After(rendered_before.log \o clog \o rendered_loop_body.log, rendered_after)
    ELSE Ok(rendered_before.out \o rendered_loop_body.out \o rendered_after.out,
            rendered_before.log \o clog \o rendered_loop_body.log \o rendered_after.log)

\* The three slices of the template, cut at the two tags.
RenderSplit(tpl, ctx, start_match, end_match) ==
    IF ~end_match.found THEN Panic(<<>>)                  \* unwrap() on None
    ELSE After(<<[e |-> "loop", open |-> start_match.tag, close |-> end_match.tag,
                  body |-> Slice(tpl, start_match.end, end_match.start)]>>,
               RenderLoop(ctx, tpl[start_match.tag],
                          Slice(tpl, 0, start_match.start),
                          Slice(tpl, start_match.end, end_match.start),
                          Slice(tpl, end_match.end, Len(tpl))))

\* The close tag looked up again in the whole template, at the offset of the scan.
RenderMatched(tpl, ctx, start_match, end_match_pos) ==
    IF end_match_pos = -1 THEN Ok(render_variables(tpl, ctx), <<>>)
    ELSE RenderSplit(tpl, ctx, start_match, RE_ENDFOR_find_at(tpl, end_match_pos))

\* The first loop-open tag found, or the base case.
RenderFound(tpl, ctx, start_match) ==
    IF ~start_match.found THEN Ok(render_variables(tpl, ctx), <<>>)
    ELSE RenderMatched(tpl, ctx, start_match, EndMatchPos(tpl, start_match.end))

render_recursive(tpl, ctx) == RenderFound(tpl, ctx, RE_FOREACH_find(tpl))

\* render: the context's map as a Value, then render_recursive.
render(tpl, ctx) == render_recursive(tpl, ctx)

(***************************************************************************)
(* extract_variables                                                       *)
(***************************************************************************)
RESERVED_WORDS == {"endfor", "in"}

\* VarUsage
Simple == [u |-> "Simple"]
CollectionOfSimple == [u |-> "CollectionOfSimple"]
CollectionOfObjects(fields) == [u |-> "CollectionOfObjects", fields |-> fields]

\* CollectionOfSimple if the structure is empty, else CollectionOfObjects.
UsageOf(structure) ==
    IF DOMAIN structure = {} THEN CollectionOfSimple ELSE CollectionOfObjects(structure)

\* HashMap::insert and HashMap::entry(k).or_insert(v)
Insert(map, k, v)   == (k :> v) @@ map
OrInsert(map, k, v) == map @@ (k :> v)

\* Match::as_str
MatchText(h, m) == Slice(h, m.start, m.end)

\* source_path.strip_prefix("<item_var>."): the segments that are left.
StripPrefix(path, item_var) ==
    IF Len(path) >= 2 /\ path[1] = item_var THEN Found(Tail(path)) ELSE NotFound

RECURSIVE VarPaths(_)
\* RE_VAR.captures_iter(h): the captured paths, in order.
VarPaths(h) ==
    IF h = <<>> THEN <<>>
    ELSE (IF VarPath(Head(h)).found THEN <<VarPath(Head(h)).val>> ELSE <<>>)
         \o VarPaths(Tail(h))

\* The body, once the scan has found its end or not.
BodyUpTo(template_chunk, search_start_pos, end_pos) ==
    IF end_pos = -1 THEN <<>> ELSE Slice(template_chunk, search_start_pos, end_pos)

\* The first loop-open tag of the chunk, compared with the tag asked for.
BodyOfFirst(template_chunk, start_tag, start_match) ==
    IF ~start_match.found THEN <<>>
    ELSE IF MatchText(template_chunk, start_match) # start_tag THEN <<>>
    ELSE BodyUpTo(template_chunk, start_match.end,
                  EndMatchPos(template_chunk, start_match.end))

find_loop_body(template_chunk, start_tag) ==
    BodyOfFirst(template_chunk, start_tag, RE_FOREACH_find(template_chunk))

RECURSIVE analyze_object_structure(_, _, _)
RECURSIVE NestedCollections(_, _, _, _, _)
RECURSIVE NestedCollection(_, _, _, _, _, _, _)
RECURSIVE SimpleProps(_, _, _)

\* 1. the loops of the body whose source is a property of item_var
NestedCollections(loop_body, ms, item_var, all_loop_vars, structure) ==
    IF ms = <<>> THEN structure
    ELSE NestedCollection(loop_body, ms, item_var, all_loop_vars, structure,
                          loop_body[Head(ms).tag],
                          StripPrefix(loop_body[Head(ms).tag].src, item_var))
NestedCollection(loop_body, ms, item_var, all_loop_vars, structure, tag, prop_name) ==
    IF ~prop_name.found
    THEN NestedCollections(loop_body, Tail(ms), item_var, all_loop_vars, structure)
    ELSE NestedCollections(loop_body, Tail(ms), item_var, all_loop_vars,
            Insert(structure, JoinWith(prop_name.val, "."),
                   UsageOf(analyze_object_structure(
                               find_loop_body(loop_body, MatchText(loop_body, Head(ms))),
                               tag.item, all_loop_vars))))

\* 2. the properties of item_var in variable references: the first segment
SimpleProps(paths, item_var, structure) ==
    IF paths = <<>> THEN structure
    ELSE IF ~StripPrefix(Head(paths), item_var).found
    THEN SimpleProps(Tail(paths), item_var, structure)
    ELSE SimpleProps(Tail(paths), item_var,
                     OrInsert(structure, StripPrefix(Head(paths), item_var).val[1], Simple))

analyze_object_structure(loop_body, item_var, all_loop_vars) ==
    SimpleProps(VarPaths(loop_body), item_var,
                NestedCollections(loop_body, RE_FOREACH_find_iter(loop_body), item_var,
                                  all_loop_vars, EmptyMap))

\* Step 1: the item names of all the loop-open tags.
AllLoopVars(h) == {h[m.tag].item : m \in Range(RE_FOREACH_find_iter(h))}

RECURSIVE TopLoops(_, _, _, _)
\* Step 2: the loops over a context path whose base is no item name.
TopLoop(h, m, tag, all_loop_vars, variables) ==
    IF tag.src[1] \in all_loop_vars THEN variables
    ELSE IF tag.call \/ JoinWith(tag.src, ".") \in BUILTIN_FNS THEN variables
    ELSE Insert(variables, tag.src[1],
                UsageOf(analyze_object_structure(find_loop_body(h, MatchText(h, m)),
                                                 tag.item, all_loop_vars)))
TopLoops(h, ms, all_loop_vars, variables) ==
    IF ms = <<>> THEN variables
    ELSE TopLoops(h, Tail(ms), all_loop_vars,
                  TopLoop(h, Head(ms), h[Head(ms).tag], all_loop_vars, variables))

RECURSIVE TopVars(_, _, _)
\* Step 3: the variable references whose base is neither reserved nor an item name.
TopVars(paths, all_loop_vars, variables) ==
    IF paths = <<>> THEN variables
    ELSE IF Head(paths)[1] \in RESERVED_WORDS \/ Head(paths)[1] \in all_loop_vars
    THEN TopVars(Tail(paths), all_loop_vars, variables)
    ELSE TopVars(Tail(paths), all_loop_vars, OrInsert(variables, Head(paths)[1], Simple))

extract_variables(h) ==
    TopVars(VarPaths(h), AllLoopVars(h),
            TopLoops(h, RE_FOREACH_find_iter(h), AllLoopVars(h), EmptyMap))

(***************************************************************************)
(* The inputs of the model                                                 *)
(***************************************************************************)
MaxLen == 4        \* templates of Spec: every token sequence up to this length
MaxNest == 8       \* templates of SpecNest: every tag/line-break sequence up to this length
MaxCall == 4       \* templates of SpecCall: up to this many lines
MaxArgLen == 5     \* argument texts of SpecArgs: every text up to this length
MaxVarLines == 5   \* templates of SpecVars: up to this many lines

SeqsUpTo(A, n) == UNION {[1..k -> A] : k \in 0..n}

S(c) == VStr(<<c>>)

Fxs  == Open("x", <<"xs">>)
Fys  == Open("x", <<"ys">>)
Vx   == Var(<<"x">>)
Vxn  == Var(<<"x", "n">>)
Dash == Ch("-")

DataAlphabet == {Fxs, Close, Vx, Vxn, NL, Dash}

\* Lines of a loop body: tag-free, each ended by its line break.
LineBodies == {<<>>, <<Vx, NL>>, <<Vxn, NL>>, <<Vx, Dash, NL>>}
Posts == {<<>>, <<Vx>>, <<Vxn>>}
Mids  == {<<>>, <<Vx, NL>>, <<Vx, Dash, NL>>}

\* One loop, its tags on lines of their own.
Single(open, b, post) == <<open, NL>> \o b \o <<Close, NL>> \o post

\* A loop over ys, reusing the item name x, inside a loop over xs.
Nested(ib, ob, post) ==
    <<Fxs, NL, Fys, NL>> \o ib \o <<Close, NL>> \o ob \o <<Close, NL>> \o post

\* Two loops at the same level.
Siblings(b1, mid, b2) ==
    <<Fxs, NL>> \o b1 \o <<Close, NL>> \o mid \o <<Fys, NL>> \o b2 \o <<Close, NL>>

DeepTemplates ==
    {Single(open, b, post) : open \in {Fxs, Fys}, b \in LineBodies, post \in Posts}
    \cup {Nested(ib, ob, post) : ib \in LineBodies, ob \in LineBodies, post \in Posts}
    \cup {Siblings(b1, mid, b2) : b1 \in LineBodies, mid \in Mids,
                                  b2 \in LineBodies}

Templates == SeqsUpTo(DataAlphabet, MaxLen) \cup DeepTemplates

CtxAB  == VMap(("xs" :> VSeq(<<S("a"), S("b")>>)) @@ ("ys" :> VSeq(<<S("c")>>)))
CtxTop == VMap(("xs" :> VSeq(<<S("a"), S("b")>>)) @@ ("ys" :> VSeq(<<S("c")>>))
               @@ ("x" :> S("t")))
CtxStr == VMap(("xs" :> S("s")) @@ ("ys" :> VBool("true")))
CtxMap == VMap(("xs" :> VMap(("n" :> S("m")))) @@ ("ys" :> VNum("12")))
CtxNone == VMap(EmptyMap)
CtxSeqs == VMap(("xs" :> VSeq(<<VSeq(<<S("a")>>), VNull>>)) @@ ("x" :> S("t")))

Contexts == {CtxAB, CtxTop, CtxStr, CtxMap, CtxNone, CtxSeqs}

NestAlphabet == {Fxs, Close, NL}
NestTemplates == SeqsUpTo(NestAlphabet, MaxNest)

\* Loop-open tags over function calls.
FilesD == OpenCall("f", <<"files">>,
            (<<"s", "o", "u", "r", "c", "e", ":", " ", "\"", "d", "\"">>))
FilesZ == OpenCall("f", <<"files">>,
            (<<"s", "o", "u", "r", "c", "e", ":", " ", "z", "z">>))
FilesS == OpenCall("f", <<"files">>, (<<"s", "o", "u", "r", "c", "e">>))
FilesR == OpenCall("f", <<"files">>,
            (<<"r", "e", "c", "u", "r", "s", "i", "v", "e", ":", "1">>))
NoFn   == OpenCall("f", <<"nofn">>, <<>>)
Vfp    == Var(<<"f", "path">>)

CallLines == { <<Fxs, NL>>, <<FilesD, NL>>, <<FilesZ, NL>>, <<FilesS, NL>>, <<FilesR, NL>>,
               <<NoFn, NL>>, <<Close, NL>>, <<Vfp, NL>> }
CallTemplates == {Flatten(ls) : ls \in SeqsUpTo(CallLines, MaxCall)}

\* The arguments of files: each absent, or one of these values.
SourceVals ==
    { S("d"), VStr(<<"d", "/", "s", ",", "q">>), VSeq(<<S("d")>>), VSeq(<<>>),
      VSeq(<<S("d"), VNum("1")>>), VSeq(<<VNum("1")>>), VNum("1"), VNull }
RecursiveVals == { VBool("true"), VBool("false"), VNum("1"), VStr(<<"t", "r", "u", "e">>) }
ExcludeNamesVals == { VSeq(<<S("f")>>), VSeq(<<>>), VSeq(<<VNum("1")>>), S("f") }
ExcludePathsVals == { VSeq(<<S("s")>>), VSeq(<<VBool("true")>>), VNum("1") }

\* The maps that hold key k with a value of V, or do not hold it.
OptionalArg(k, V) == {EmptyMap} \cup {k :> v : v \in V}

FilesArgs ==
    { a @@ b @@ c @@ d : a \in OptionalArg("source", SourceVals),
                         b \in OptionalArg("recursive", RecursiveVals),
                         c \in OptionalArg("exclude_names", ExcludeNamesVals),
                         d \in OptionalArg("exclude_paths", ExcludePathsVals) }

\* Loops over a property path, over a property of an item, over a reserved word.
Ftm == Open("m", <<"team", "members">>)
Fxi == Open("i", <<"x", "items">>)
Fin == Open("x", <<"in">>)
Vmn == Var(<<"m", "name">>)

VarLines == { <<Fxs, NL>>, <<Fys, NL>>, <<Ftm, NL>>, <<Fxi, NL>>, <<Fin, NL>>,
              <<Vx, NL>>, <<Vxn, NL>>, <<Vmn, NL>>, <<Close, NL>> }
\* The loop of the documentation, written in one line.
VarExamples == { <<Ftm, Vmn, Close>> }
VarTemplates == {Flatten(ls) : ls \in SeqsUpTo(VarLines, MaxVarLines)} \cup VarExamples

CtxZ == VMap(("xs" :> VSeq(<<S("a")>>)) @@ ("zz" :> S("d")))
CallContexts == {CtxNone, CtxZ}

ArgAlphabet == {"\"", "\\", ",", ":", "[", "]", "k", "1"}
\* The argument text of the calls above, and the text the documentation shows.
ArgExamples ==
    { FilesD.args, FilesZ.args, FilesS.args, FilesR.args,
      (<<"k", ":", " ", "[", "\"", "1", ",", "1", "\"", "]", ",", " ", "1", ":", " ",
              "t", "r", "u", "e">>) }
ArgTexts == SeqsUpTo(ArgAlphabet, MaxArgLen) \cup ArgExamples

\* A context whose keys are spelled like a literal, like a word, and like nothing.
CtxKeys == VMap(("" :> S("e")) @@ ("1" :> S("v")) @@ ("k" :> VSeq(<<S("w")>>)))
ArgContexts == {CtxNone, CtxKeys}

(***************************************************************************)
(* The operations                                                          *)
(***************************************************************************)
NoResult == [st |-> "none"]

\* engine::render(template, context)
Render ==
    /\ pc = "start"
    /\ result' = render(template, context)
    /\ pc' = "done"
    /\ UNCHANGED <<template, context, argText, callArgs>>

\* parse_function_args(argText, context), as the call branch of a loop runs it;
\* parts is the vector the splitting loop leaves.
ParseArgs ==
    /\ pc = "start"
    /\ result' = [st |-> "args", parts |-> SplitArgs(argText),
                  parsed |-> parse_function_args(argText, context)]
    /\ pc' = "done"
    /\ UNCHANGED <<template, context, argText, callArgs>>

\* Data templates against data contexts.
Init ==
    /\ template \in Templates
    /\ context \in Contexts
    /\ argText = <<>>
    /\ callArgs = EmptyMap
    /\ pc = "start"
    /\ result = NoResult

Next == Render

Spec == Init /\ [][Next]_vars

\* Templates of loop tags and line breaks only, every arrangement of them.
InitNest ==
    /\ template \in NestTemplates
    /\ context = CtxAB
    /\ argText = <<>>
    /\ callArgs = EmptyMap
    /\ pc = "start"
    /\ result = NoResult

NextNest == Render

SpecNest == InitNest /\ [][NextNest]_vars

\* Templates with loops over function calls.
InitCall ==
    /\ template \in CallTemplates
    /\ context \in CallContexts
    /\ argText = <<>>
    /\ callArgs = EmptyMap
    /\ pc = "start"
    /\ result = NoResult

NextCall == Render

SpecCall == InitCall /\ [][NextCall]_vars

\* files(callArgs), as the call branch of a loop calls it through the registry.
CallFiles ==
    /\ pc = "start"
    /\ result' = [st |-> "files", ret |-> CallBuiltin("files", callArgs)]
    /\ pc' = "done"
    /\ UNCHANGED <<template, context, argText, callArgs>>

\* Calls of files.
InitFiles ==
    /\ template = <<>>
    /\ context = CtxNone
    /\ argText = <<>>
    /\ callArgs \in FilesArgs
    /\ pc = "start"
    /\ result = NoResult

NextFiles == CallFiles

SpecFiles == InitFiles /\ [][NextFiles]_vars

\* extract_variables(template), as run_interactive_mode calls it.
ExtractVariables ==
    /\ pc = "start"
    /\ result' = [st |-> "vars", vars |-> extract_variables(template)]
    /\ pc' = "done"
    /\ UNCHANGED <<template, context, argText, callArgs>>

\* Templates for the analysis of variables.
InitVars ==
    /\ template \in VarTemplates
    /\ context = CtxNone
    /\ argText = <<>>
    /\ callArgs = EmptyMap
    /\ pc = "start"
    /\ result = NoResult

NextVars == ExtractVariables

SpecVars == InitVars /\ [][NextVars]_vars

\* Argument texts.
InitArgs ==
    /\ template = <<>>
    /\ context \in ArgContexts
    /\ argText \in ArgTexts
    /\ callArgs = EmptyMap
    /\ pc = "start"
    /\ result = NoResult

NextArgs == ParseArgs

SpecArgs == InitArgs /\ [][NextArgs]_vars

(***************************************************************************)
(* What the properties below speak of                                      *)
(***************************************************************************)
Done == pc = "done"

\* A tag is line-anchored: only blanks lie between it and the start of its line
\* (or of an earlier line, the blanks then spanning the line breaks).
Anchored(tpl, t) ==
    \E s \in 0..(t - 1) : LineStart(tpl, s) /\ \A q \in (s + 1)..(t - 1) : IsWs(tpl[q])

\* The indexes of the loop-open and loop-close tags of a template.
OpenTags(tpl)  == {t \in DOMAIN tpl : tpl[t].k = "open" /\ Anchored(tpl, t)}
CloseTags(tpl) == {t \in DOMAIN tpl : tpl[t].k = "close" /\ Anchored(tpl, t)}

\* Opens minus closes among the tags with an index in a..b.
Depth(tpl, a, b) ==
    Cardinality(OpenTags(tpl) \cap (a..b)) - Cardinality(CloseTags(tpl) \cap (a..b))

Balanced(tpl) ==
    /\ \A t \in DOMAIN tpl : Depth(tpl, 1, t) >= 0
    /\ Depth(tpl, 1, Len(tpl)) = 0

\* The close tag of the open tag o: the first later close tag at which as many
\* opens as closes have been seen since o.
MatchingClose(tpl, o) ==
    Min({c \in CloseTags(tpl) : c > o /\ Depth(tpl, o + 1, c - 1) = 0})

\* The text a variable reference yields when x is bound as xr says (Found(v)
\* or NotFound) and nothing else is: the value's text, nothing if the path
\* does not resolve.
RefText(path, xr) ==
    IF xr.found /\ resolve_path(VMap("x" :> xr.val), path).found
    THEN value_to_string(resolve_path(VMap("x" :> xr.val), path).val)
    ELSE ""

\* The text of a tag-free run of tokens, x bound as xr says.
RECURSIVE TextWith(_, _)
TextWith(toks, xr) ==
    IF toks = <<>> THEN ""
    ELSE (IF Head(toks).k = "var" THEN RefText(Head(toks).path, xr) ELSE Head(toks).c)
         \o TextWith(Tail(toks), xr)

\* The text of a tag-free run of tokens in a context.
TextIn(toks, ctx) ==
    TextWith(toks, IF "x" \in DOMAIN ctx.m THEN Found(ctx.m["x"]) ELSE NotFound)

\* A body rendered once per item, x bound to the item, in the items' order.
RECURSIVE EachItem(_, _)
EachItem(items, body) ==
    IF items = <<>> THEN ""
    ELSE TextWith(body, Found(Head(items))) \o EachItem(Tail(items), body)

\* What a loop over the key src of a context iterates: the elements of a
\* sequence, any other value itself, nothing when the key is missing.
ItemsOf(ctx, src) ==
    IF src \notin DOMAIN ctx.m THEN <<>>
    ELSE IF ctx.m[src].t = "seq" THEN ctx.m[src].q
    ELSE <<ctx.m[src]>>

\* The values the iterations of a call were bound to, in order.
IterVals(log) ==
    [i \in DOMAIN SelectSeq(log, LAMBDA ev : ev.e = "iter") |->
        SelectSeq(log, LAMBDA ev : ev.e = "iter")[i].val]

\* Whether an error message contains a name.  A message is kept in the pieces
\* it is formatted from, and no piece of the model's messages holds a function
\* name beside other text unless the name is also a piece of its own.
Mentions(msg, name) == name \in Range(msg)

(***************************************************************************)
(* C1                                                                      *)
(***************************************************************************)
\* C1: for every template whose loop-open and loop-close tags are balanced,
\* render pairs the first loop-open tag with the loop-close tag at the same
\* nesting depth: the first later close tag at which as many opens as closes
\* have been seen since the open tag, never the close of an inner loop.
C1_PairsAtSameDepth ==
    (Done /\ Balanced(template) /\ OpenTags(template) # {}) =>
        /\ result.st = "ok"
        /\ result.log # <<>>
        /\ result.log[1].e = "loop"
        /\ result.log[1].open = Min(OpenTags(template))
        /\ result.log[1].close = MatchingClose(template, Min(OpenTags(template)))

(***************************************************************************)
(* C2                                                                      *)
(***************************************************************************)
InlineBodies == SeqsUpTo({Vx, Dash}, 2)

\* C2: a loop over a sequence renders to the concatenation of its body
\* rendered once per element, in order, the item name bound to the element,
\* whether the tags stand on lines of their own or the open tag, the body and
\* the close tag are written on one line.
C2_LoopOverSequence ==
    (Done /\ "xs" \in DOMAIN context.m /\ context.m["xs"].t = "seq") =>
        /\ \A b \in LineBodies :
              template = Single(Fxs, b, <<>>) =>
                  result.st = "ok" /\ result.out = EachItem(context.m["xs"].q, b)
        /\ \A b \in InlineBodies :
              template = <<Fxs>> \o b \o <<Close>> =>
                  result.st = "ok" /\ result.out = EachItem(context.m["xs"].q, b)

(***************************************************************************)
(* C3                                                                      *)
(***************************************************************************)
\* C3: a call to render returns either an output string or one error message,
\* never ends any other way (no panic), and an error comes with no rendered text.
C3_OutputOrError ==
    Done =>
        /\ result.st \in {"ok", "err"}
        /\ result.st = "err" => "out" \notin DOMAIN result

(***************************************************************************)
(* C4                                                                      *)
(***************************************************************************)
\* The names of the unregistered functions the loops of a template call.
UnknownCalls(tpl) ==
    {JoinWith(tpl[t].src, ".") :
        t \in {u \in OpenTags(tpl) :
                  tpl[u].call /\ JoinWith(tpl[u].src, ".") \notin BUILTIN_FNS}}

\* C4, as first stated: if a template contains a loop whose source is a call
\* to a function name that is not in the registry, render fails for every
\* context with an error message that contains that name.
C4_UnknownFunctionAlwaysFails ==
    (Done /\ Balanced(template)) =>
        \A fn \in UnknownCalls(template) :
            result.st = "err" /\ Mentions(result.err, fn)

\* C4, amended: whenever render comes to resolve a loop whose source is a call
\* to a function name that is not in the registry, it stops there and returns
\* the error "Unknown function '<name>'", and no output string.
C4_UnknownFunctionFailsWhenReached ==
    Done =>
        \A i \in DOMAIN result.log :
            (result.log[i].e = "lookup" /\ result.log[i].fn \notin BUILTIN_FNS) =>
                /\ i = Len(result.log)
                /\ result.st = "err"
                /\ result.err = <<"Unknown function '", result.log[i].fn, "'">>
                /\ "out" \notin DOMAIN result

\* C4: render has run two iterations' worth of other work, reached a loop over
\* the unregistered nofn inside a loop that iterates, and failed there.
C4_Witness ==
    /\ Done
    /\ template = <<Fxs, NL, NoFn, NL, Close, NL, Close, NL>>
    /\ context = CtxZ
    /\ result.st = "err"
    /\ result.log[Len(result.log)] = Lookup("nofn")

(***************************************************************************)
(* C5                                                                      *)
(***************************************************************************)
\* C5: every failure while resolving a function-call loop source makes render
\* return an error whose message contains the name of that function (the
\* function of the last registry lookup of the call).
C5_CallErrorsNameFunction ==
    (Done /\ result.st = "err") =>
        Mentions(result.err, result.log[Len(result.log)].fn)

(***************************************************************************)
(* C6                                                                      *)
(***************************************************************************)
\* C6: missing data never produces an error.  For templates without
\* function-call loops render returns no error; in a tag-free template a
\* reference whose dotted path does not resolve is replaced by the empty
\* string (and one that resolves by the value's text); a loop
\* whose source path does not resolve runs no iteration and its body
\* contributes nothing.  (Loop sources here are xs and ys and the item name is
\* x, so a source resolves in a derived context as it does in the caller's.)
C6_MissingDataNoError ==
    Done =>
        /\ result.st # "err"
        /\ Range(template) \subseteq {Vx, Vxn, NL, Dash} =>
              result.st = "ok" /\ result.out = TextIn(template, context)
        /\ \A i \in DOMAIN result.log :
              result.log[i].e = "iter" => resolve_path(context, result.log[i].src).found
        /\ \A open \in {Fxs, Fys}, b \in LineBodies, post \in Posts :
              (template = Single(open, b, post) /\ open.src[1] \notin DOMAIN context.m) =>
                  result.st = "ok" /\ result.out = TextIn(post, context)

\* C6: a loop over a missing source, with a body and a tail that refer to a
\* missing variable, has been rendered.
C6_Witness ==
    /\ Done
    /\ context = CtxNone
    /\ template = Single(Fxs, <<Vx, Dash, NL>>, <<Vxn>>)
    /\ result.st = "ok"
    /\ \E i \in DOMAIN result.log : result.log[i].e = "path"

(***************************************************************************)
(* C7                                                                      *)
(***************************************************************************)
\* C7: a loop whose source resolves to a value that is not a sequence renders
\* its body exactly once with the item name bound to that value; a sequence is
\* iterated element by element and is never wrapped.
C7_NonSequenceOnce ==
    Done =>
        \A open \in {Fxs, Fys}, b \in LineBodies, post \in Posts :
            template = Single(open, b, post) =>
                /\ result.st = "ok"
                /\ IterVals(result.log) = ItemsOf(context, open.src[1])
                /\ result.out = EachItem(ItemsOf(context, open.src[1]), b)
                                    \o TextIn(post, context)

\* C7: a loop over a mapping has rendered its body once, for the mapping itself.
C7_Witness ==
    /\ Done
    /\ context = CtxMap
    /\ template = Single(Fxs, <<Vx, Dash, NL>>, <<>>)
    /\ result.st = "ok"
    /\ result.out = "{\"n\":\"m\"}-\n"

(***************************************************************************)
(* C8                                                                      *)
(***************************************************************************)
\* The outer loop of Nested: per outer item, the inner loop and then the outer
\* body's own lines with x bound to the outer item.
RECURSIVE OuterItems(_, _, _, _)
OuterItems(items, inner, ib, ob) ==
    IF items = <<>> THEN ""
    ELSE EachItem(inner, ib) \o TextWith(ob, Found(Head(items)))
         \o OuterItems(Tail(items), inner, ib, ob)

C8_Scoped ==
    Done =>
        /\ \A ib \in LineBodies, ob \in LineBodies, post \in Posts :
              template = Nested(ib, ob, post) =>
                  /\ result.st = "ok"
                  /\ result.out = OuterItems(ItemsOf(context, "xs"), ItemsOf(context, "ys"),
                                             ib, ob)
                                      \o TextIn(post, context)
        /\ \A b1 \in LineBodies, mid \in Mids, b2 \in LineBodies :
              template = Siblings(b1, mid, b2) =>
                  /\ result.st = "ok"
                  /\ result.out = EachItem(ItemsOf(context, "xs"), b1)
                                      \o TextIn(mid, context)
                                      \o EachItem(ItemsOf(context, "ys"), b2)

\* C8: a loop's item binding is visible only inside that loop's body.  The
\* caller's context is never changed; the text after a loop and a later
\* sibling loop are rendered with the context the loop was entered with; when
\* an inner loop reuses the item name of the outer loop, the outer item is what
\* the name yields again in the outer body after the inner loop's close tag.
C8_ItemBindingScoped == []C8_Scoped /\ [][context' = context]_vars

\* C8: an inner loop reusing the item name x has run inside an outer loop whose
\* body refers to x after it, under a context that has a top-level x as well.
C8_Witness ==
    /\ Done
    /\ context = CtxTop
    /\ template = Nested(<<Vx, NL>>, <<Vx, NL>>, <<Vx>>)
    /\ result.st = "ok"
    /\ result.out = "c\na\nc\nb\nt"

(***************************************************************************)
(* C9                                                                      *)
(***************************************************************************)
\* Reading an argument text as the literals' grammar has it: depth is the
\* number of open brackets, quoted whether a string is open, and inside a
\* string a backslash escapes the character after it.
RECURSIVE ReadArgs(_, _, _, _, _)
ReadArgs(cs, i, depth, quoted, commas) ==
    IF i > Len(cs) THEN [ok |-> depth = 0 /\ ~quoted, commas |-> commas]
    ELSE IF quoted THEN
        IF cs[i] = "\\" THEN
            IF i = Len(cs) THEN [ok |-> FALSE, commas |-> commas]
            ELSE ReadArgs(cs, i + 2, depth, TRUE, commas)
        ELSE ReadArgs(cs, i + 1, depth, cs[i] # "\"", commas)
    ELSE IF cs[i] = "\"" THEN ReadArgs(cs, i + 1, depth, TRUE, commas)
    ELSE IF cs[i] \in {"[", "{"} THEN ReadArgs(cs, i + 1, depth + 1, FALSE, commas)
    ELSE IF cs[i] \in {"]", "}"} THEN
        IF depth = 0 THEN [ok |-> FALSE, commas |-> commas]
        ELSE ReadArgs(cs, i + 1, depth - 1, FALSE, commas)
    ELSE IF cs[i] = "," /\ depth = 0 THEN ReadArgs(cs, i + 1, depth, FALSE, commas \cup {i})
    ELSE ReadArgs(cs, i + 1, depth, FALSE, commas)

\* The text cut at the given commas, each piece trimmed.
RECURSIVE CutAt(_, _, _)
CutAt(cs, from, commas) ==
    IF commas = {} THEN <<Trim(SubSeq(cs, from, Len(cs)))>>
    ELSE <<Trim(SubSeq(cs, from, Min(commas) - 1))>>
         \o CutAt(cs, Min(commas) + 1, commas \ {Min(commas)})

\* A blank piece after the last comma is no argument.
DropBlankLast(ps) == IF ps[Len(ps)] = <<>> THEN SubSeq(ps, 1, Len(ps) - 1) ELSE ps

\* C9: parse_function_args splits the argument text exactly at the commas
\* that lie outside every bracket pair and outside every double-quoted string,
\* a string that contains brackets or an escaped quote included.
C9_SplitsAtTopLevelCommas ==
    (Done /\ ReadArgs(argText, 1, 0, FALSE, {}).ok) =>
        result.parts = DropBlankLast(CutAt(argText, 1, ReadArgs(argText, 1, 0, FALSE, {}).commas))

(***************************************************************************)
(* C10                                                                     *)
(***************************************************************************)
\* What the one argument part kv = <<key, value>> (the part cut at its first
\* colon) must parse to.
C10_OnePart(kv, parsed) ==
    IF Len(kv) < 2 \/ Trim(kv[2]) = <<>> THEN ~parsed.ok
    ELSE IF from_str(Trim(kv[2])).ok THEN
        /\ parsed.ok
        /\ parsed.val[Concat(Trim(kv[1]))] = from_str(Trim(kv[2])).val
    ELSE IF resolve_path(context, PathOf(Trim(kv[2]))).found THEN
        /\ parsed.ok
        /\ parsed.val[Concat(Trim(kv[1]))] = resolve_path(context, PathOf(Trim(kv[2]))).val
    ELSE ~parsed.ok /\ Mentions(parsed.err, Concat(Trim(kv[2])))

\* C10: in an argument text of one part, the value text is the literal it
\* denotes whenever it parses as one; otherwise the value at that dotted path
\* of the context; otherwise parsing fails with an error that names the value.
\* A part with no colon or with an empty value always fails parsing.
C10_ArgumentInterpretation ==
    (Done /\ Len(result.parts) = 1) =>
        C10_OnePart(SplitN2(result.parts[1], ":"), result.parsed)

(***************************************************************************)
(* C14                                                                     *)
(***************************************************************************)
\* Text before a loop: blank lines only.  Text inside and after it likewise.
BlankLines == {<<>>, <<NL>>, <<NL, NL>>}

\* The text of a run of characters.
RECURSIVE CharText(_)
CharText(toks) == IF toks = <<>> THEN "" ELSE Head(toks).c \o CharText(Tail(toks))

\* C14: a loop-open or loop-close tag that stands alone on its line disappears
\* from the output together with exactly one trailing line break and consumes
\* nothing else: blank lines before the open tag, blank lines of the body
\* (before the close tag) and line breaks after the close tag's own appear
\* unchanged in the output.
C14_TagConsumesOneLineBreak ==
    Done =>
        \A pre \in BlankLines, b \in BlankLines, post \in BlankLines :
            template = pre \o <<Fxs, NL>> \o b \o <<Close, NL>> \o post =>
                /\ result.st = "ok"
                /\ result.out = CharText(pre)
                                    \o EachItem(ItemsOf(context, "xs"), b)
                                    \o CharText(post)

C17_UnmatchedOpenLeftUnexpanded ==
    (Done /\ OpenTags(template) # {}
          /\ {c \in CloseTags(template) :
                 c > Min(OpenTags(template))
                 /\ Depth(template, Min(OpenTags(template)) + 1, c - 1) = 0} = {}) =>
        /\ result.st = "ok"
        /\ result.log = <<>>
        /\ result.out = render_variables(template, context)

(***************************************************************************)
(* C18                                                                     *)
(***************************************************************************)
LoopTags == {Fxs, FilesD, FilesZ, FilesS, FilesR, NoFn}

\* Two loops one after the other, and one inside the other; empty bodies.
Sib(A, B)  == <<A, NL, Close, NL, B, NL, Close, NL>>
Nest(A, B) == <<A, NL, B, NL, Close, NL, Close, NL>>

\* The events of a run, without the ghost events of pairing.
Events(log) == SelectSeq(log, LAMBDA ev : ev.e # "loop")

Went(ok, log) == [ok |-> ok, log |-> log]

\* What one loop with an empty body is expected to do: resolve its source,
\* then take the items in their order.
LeafEvents(ctx, tag) ==
    LET coll == Collection(ctx, tag)
    IN  IF ~coll.ok THEN Went(FALSE, coll.log)
        ELSE Went(TRUE, coll.log \o [i \in 1..Len(ItemsToIterate(coll.val)) |->
                                        Iter(tag, ItemsToIterate(coll.val)[i])])

\* What two loops in a row are expected to do: the second after the first,
\* and not at all when the first fails.
SibEvents(ctx, A, B) ==
    IF ~LeafEvents(ctx, A).ok THEN LeafEvents(ctx, A)
    ELSE Went(LeafEvents(ctx, B).ok, LeafEvents(ctx, A).log \o LeafEvents(ctx, B).log)

RECURSIVE InnerEvents(_, _, _, _)
\* The inner loop once per item of the outer one, until it fails.
InnerEvents(ctx, A, B, items) ==
    IF items = <<>> THEN Went(TRUE, <<>>)
    ELSE LET inner == LeafEvents(NewContext(ctx, A.item, Head(items)), B)
         IN  IF ~inner.ok THEN Went(FALSE, <<Iter(A, Head(items))>> \o inner.log)
             ELSE LET rest == InnerEvents(ctx, A, B, Tail(items))
                  IN  Went(rest.ok, <<Iter(A, Head(items))>> \o inner.log \o rest.log)

\* What a loop inside a loop is expected to do.
NestEvents(ctx, A, B) ==
    LET coll == Collection(ctx, A)
    IN  IF ~coll.ok THEN Went(FALSE, coll.log)
        ELSE LET inner == InnerEvents(ctx, A, B, ItemsToIterate(coll.val))
             IN  Went(inner.ok, coll.log \o inner.log)

\* A lookup or a call that ends in an error.
Fails(log, i) ==
    \/ log[i].e = "lookup" /\ (i = Len(log) \/ log[i + 1].e # "call")
    \/ log[i].e = "call" /\ ~CallBuiltin(log[i].fn, log[i].args).ok

\* C18: loops are evaluated in document order, depth first and one at a time:
\* a loop's source is resolved before its body is rendered, its iterations run
\* in the sequence's order, a nested loop is resolved once per outer iteration,
\* and a loop after the close tag is resolved when all of that is finished; a
\* failing lookup or call is the last event of the run and the run's error.
C18_DocumentOrder ==
    Done =>
        /\ \A A \in LoopTags, B \in LoopTags :
              /\ template = Sib(A, B) =>
                    /\ Events(result.log) = SibEvents(context, A, B).log
                    /\ (result.st = "ok") = SibEvents(context, A, B).ok
              /\ template = Nest(A, B) =>
                    /\ Events(result.log) = NestEvents(context, A, B).log
                    /\ (result.st = "ok") = NestEvents(context, A, B).ok
        /\ \A i \in DOMAIN result.log :
              Fails(result.log, i) => i = Len(result.log) /\ result.st = "err"
        /\ result.st = "err" =>
              result.log # <<>> /\ Fails(result.log, Len(result.log))

\* C18: two files loops, one inside the other, have been rendered: the inner
\* call was made once for each of the two records of the outer call.
C18_Witness ==
    /\ Done
    /\ template = Nest(FilesD, FilesD)
    /\ result.st = "ok"
    /\ Len(SelectSeq(result.log, LAMBDA ev : ev.e = "call")) = 3
    /\ Len(SelectSeq(result.log, LAMBDA ev : ev.e = "iter")) = 6

(***************************************************************************)
(* C15                                                                     *)
(***************************************************************************)
\* A sequence of strings.
StringSeq(v) == v.t = "seq" /\ \A i \in DOMAIN v.q : v.q[i].t = "str"

\* Malformed arguments of files.
Malformed(args) ==
    \/ "source" \notin DOMAIN args
    \/ ~(args["source"].t = "str" \/ StringSeq(args["source"]))
    \/ "recursive" \in DOMAIN args /\ args["recursive"].t # "bool"
    \/ "exclude_names" \in DOMAIN args /\ ~StringSeq(args["exclude_names"])
    \/ "exclude_paths" \in DOMAIN args /\ ~StringSeq(args["exclude_paths"])

\* C15: files returns an error value instead of a sequence exactly when its
\* arguments are malformed (source absent or neither a string nor a sequence
\* of strings, recursive present and not a boolean, exclude_names or
\* exclude_paths present and not a sequence of strings); with well-typed
\* arguments it returns a sequence, whatever fails on single paths and files.
C15_ErrorExactlyWhenMalformed ==
    (Done /\ result.st = "files") =>
        /\ result.ret.ok = ~Malformed(callArgs)
        /\ result.ret.ok => result.ret.val.t = "seq"

(***************************************************************************)
(* C11                                                                     *)
(***************************************************************************)
\* The loops over a property path of a context variable: source base.p...,
\* no function call.
PathLoops(tpl) ==
    {o \in OpenTags(tpl) : ~tpl[o].call /\ Len(tpl[o].src) >= 2}

\* The item names of the loops of a template.
ItemNames(tpl) == {tpl[o].item : o \in OpenTags(tpl)}

\* C11: for the template {{foreach m in team.members}}{{m.name}}{{endfor}},
\* written in one line or with each tag on its line, extract_variables records
\* team as a CollectionOfObjects whose field members is a CollectionOfObjects
\* with name: Simple, and with no field name directly under team; in general
\* the segment that follows the base variable in a loop's source is a field
\* of the shape recorded for the base.
C11_SourcePathNested ==
    (Done /\ result.st = "vars") =>
        /\ template \in {<<Ftm, Vmn, Close>>, <<Ftm, NL, Vmn, NL, Close, NL>>} =>
              /\ "team" \in DOMAIN result.vars
              /\ result.vars["team"].u = "CollectionOfObjects"
              /\ "members" \in DOMAIN result.vars["team"].fields
              /\ result.vars["team"].fields["members"]
                     = CollectionOfObjects("name" :> Simple)
              /\ "name" \notin DOMAIN result.vars["team"].fields
        /\ \A o \in PathLoops(template) :
              template[o].src[1] \notin ItemNames(template) =>
                  /\ template[o].src[1] \in DOMAIN result.vars
                  /\ result.vars[template[o].src[1]].u = "CollectionOfObjects"
                  /\ template[o].src[2] \in DOMAIN result.vars[template[o].src[1]].fields

(***************************************************************************)
(* C12                                                                     *)
(***************************************************************************)
\* The loops over a plain context path whose base is neither an item name
\* nor a reserved word.
PlainLoops(tpl) ==
    {o \in OpenTags(tpl) : /\ ~tpl[o].call
                           /\ tpl[o].src[1] \notin ItemNames(tpl)
                           /\ tpl[o].src[1] \notin RESERVED_WORDS}

\* The indexes of the body of the loop opened at o.
BodyOf(tpl, o) == (o + 1)..(MatchingClose(tpl, o) - 1)

\* The fields f referenced as <item>.f in the body of the loop opened at o.
FieldsIn(tpl, o) ==
    {tpl[i].path[2] : i \in {j \in BodyOf(tpl, o) :
                                /\ tpl[j].k = "var"
                                /\ Len(tpl[j].path) >= 2
                                /\ tpl[j].path[1] = tpl[o].item}}

\* Whether the body of the loop opened at o uses a property of the item at
\* all, in a variable reference or as the source of an inner loop.
UsesItem(tpl, o) ==
    \E j \in BodyOf(tpl, o) :
        \/ tpl[j].k = "var" /\ Len(tpl[j].path) >= 2 /\ tpl[j].path[1] = tpl[o].item
        \/ tpl[j].k = "open" /\ Len(tpl[j].src) >= 2 /\ tpl[j].src[1] = tpl[o].item

\* C12: in a template whose tags pair up, for every loop over a plain context
\* path whose base is no item name, first in the template or later, alone over
\* its base variable or not, extract_variables records the base variable as
\* CollectionOfObjects holding every field referenced as <item>.f in that
\* loop's body, and as CollectionOfSimple when no loop over that base
\* references a property of its item.
C12_EveryLoopBodyAnalysed ==
    (Done /\ result.st = "vars" /\ Balanced(template)) =>
        \A o \in PlainLoops(template) :
            /\ template[o].src[1] \in DOMAIN result.vars
            /\ FieldsIn(template, o) # {} =>
                  /\ result.vars[template[o].src[1]].u = "CollectionOfObjects"
                  /\ FieldsIn(template, o)
                        \subseteq DOMAIN result.vars[template[o].src[1]].fields
            /\ (\A p \in PlainLoops(template) :
                   template[p].src[1] = template[o].src[1] => ~UsesItem(template, p)) =>
                  result.vars[template[o].src[1]] = CollectionOfSimple

(***************************************************************************)
(* C13                                                                     *)
(***************************************************************************)
\* C13: no key of the mapping extract_variables returns is a reserved word
\* (endfor, in) or the item name of a loop of the template, whether the name
\* stands in a variable reference or is the base of a loop's source.
C13_NoReservedOrItemKeys ==
    (Done /\ result.st = "vars") =>
        \A key \in DOMAIN result.vars :
            key \notin RESERVED_WORDS /\ key \notin ItemNames(template)
====
